---- MODULE Spec2Model ----
(***************************************************************************)
(* Client operations of the kanban MCP server against the Planka REST API: *)
(* notifications, users, card actions, card memberships and attachments.   *)
(*                                                                         *)
(* Spec       : the operations that go through plankaRequest.  One exposed *)
(*              operation runs at a time; the requests it left in flight   *)
(*              keep running after it has completed.                       *)
(* SpecUpload : uploadAttachment / uploadAttachmentFromUrl, two            *)
(*              invocations interleaved at their await points, over one    *)
(*              temp directory.                                            *)
(* SpecPure   : what the operations compute from an answer they were       *)
(*              given, over bounded answers.                               *)
(***************************************************************************)
EXTENDS Naturals, Integers, Sequences, FiniteSets, TLC

\* ---------------------------------------------------------------- bounds
NumNotifs == 2      \* notifications on the server, ids 1..NumNotifs
MaxIds == 2         \* longest ids array given to markNotificationsAsRead

Notifs == 1..NumNotifs
\* One user and one attachment: the card-membership and attachment requests
\* address one id each and never read another.
UserIds == {1}
AttIds == {1}

RECURSIVE SeqsUpTo(_, _)
SeqsUpTo(S, n) ==
    IF n = 0 THEN {<<>>}
    ELSE LET shorter == SeqsUpTo(S, n - 1)
         IN shorter \cup {Append(s, x) : s \in {t \in shorter : Len(t) = n - 1}, x \in S}

\* ------------------------------------------------------- strings as data
\* A string is a sequence of characters; toLowerCase maps each character.
UpperCase == <<"A", "B", "C", "D", "E", "F", "G", "H", "I", "J", "K", "L", "M", "N", "O", "P", "Q", "R", "S", "T", "U", "V", "W", "X", "Y", "Z">>
LowerCase == <<"a", "b", "c", "d", "e", "f", "g", "h", "i", "j", "k", "l", "m", "n", "o", "p", "q", "r", "s", "t", "u", "v", "w", "x", "y", "z">>
Digits == <<"0", "1", "2", "3", "4", "5", "6", "7", "8", "9">>

ToLowerChar(c) ==
    IF \E i \in DOMAIN UpperCase : UpperCase[i] = c
    THEN LowerCase[CHOOSE i \in DOMAIN UpperCase : UpperCase[i] = c]
    ELSE c

toLowerCase(s) == [i \in 1..Len(s) |-> ToLowerChar(s[i])]

\* String.prototype.includes: sub occurs in s as a contiguous substring.
includesAtStart(s, sub) ==
    Len(sub) <= Len(s) /\ SubSeq(s, 1, Len(sub)) = sub

includes(s, sub) ==
    \E k \in 0..(Len(s) - Len(sub)) : SubSeq(s, k + 1, k + Len(sub)) = sub

\* The user directory the server answers GET /api/users with.
UserList ==
    << [id |-> 1, name |-> <<"A", "b">>, username |-> <<"a">>, email |-> <<"a", "B">>],
       [id |-> 2, name |-> <<"b">>, username |-> <<"B">>, email |-> <<"b">>] >>

SearchNames == { <<"a">>, <<"B">>, <<"a", "a">> }
SearchEmails == { <<"A", "b">>, <<"a">> }
SearchUsernames == { <<"b">>, <<"c">> }

\* ------------------------------------------------------------- variables
VARIABLES
    isRead,        \* server: Notification.isRead, by notification id
    members,       \* server: user ids that are members of the card
    attachments,   \* server: attachment ids that exist
    net,           \* requests issued and not yet delivered back to their callback;
                   \* call = 1: issued by the current invocation, 0: by an earlier one
    pc,            \* "idle" | "await" | "done": the current invocation
    op,            \* name of the exposed operation being invoked
    arg,           \* its argument
    sent,          \* the requests the current invocation has issued, in order
    promises,      \* markNotificationsAsRead: the promises of ids.map(...), by index
    order,         \* history: the indices of those promises in the order they settled
    snapshot,      \* markAll / unread count: what getNotifications returned
    result,        \* what the invocation returned or threw
    impl,          \* SpecUpload: which of the two versions of attachments.ts runs
    up,            \* SpecUpload: the upload invocations, by invocation
    fs             \* SpecUpload: the local files, path -> content

remoteVars == <<isRead, members, attachments>>
callVars == <<net, pc, op, arg, sent, promises, order, snapshot, result>>
uploadVars == <<impl, up, fs>>
vars == <<isRead, members, attachments, net, pc, op, arg, sent,
          promises, order, snapshot, result, impl, up, fs>>

\* ---------------------------------------------------- results and errors
\* An error message is the sequence of its parts: `${prefix}: ${cause}`.
Pending == [kind |-> "pending", value |-> <<>>, msg |-> <<>>]
Ok(v) == [kind |-> "ok", value |-> v, msg |-> <<>>]
Err(m) == [kind |-> "error", value |-> <<>>, msg |-> m]

TransportError == <<"TransportError">>   \* plankaRequest rejected
ZodError == <<"ZodError">>               \* <Schema>.parse threw

\* catch (error) { throw new Error(`${prefix}: ${error.message}`) }
Wrap(prefix, r) == IF r.kind = "error" THEN Err(<<prefix>> \o r.msg) ELSE r

\* await plankaRequest(...): the decoded JSON, or the transport's error.
Awaited(resp) == IF resp.status = "error" THEN Err(TransportError) ELSE Ok(resp)

\* <Schema>.parse(response): the validated data, or a ZodError.
Parse(resp) == IF resp.status = "bad" THEN Err(ZodError) ELSE Ok(resp.data)

\* const response = await plankaRequest(..); const parsed = Schema.parse(response)
AwaitThenParse(resp) ==
    IF Awaited(resp).kind = "error" THEN Awaited(resp) ELSE Parse(resp)

\* ------------------------------------------------------------- requests
NoBody == [none |-> TRUE]

\* One plankaRequest(path, {method, body}) call: res and id stand for the path.
Request(method, res, id, body) ==
    [id |-> id, method |-> method, res |-> res, body |-> body]

\* body: { isRead: true } of the PATCH in markNotificationsAsRead
PatchBodyIsReadFalse == [isRead |-> FALSE]
PatchBody == [isRead |-> TRUE]

PatchRequestsDistinctIds(ids) ==
    LET firsts == SelectSeq([i \in 1..Len(ids) |-> i],
                            LAMBDA i : \A j \in 1..(i - 1) : ids[j] # ids[i])
    IN [k \in 1..Len(firsts) |->
           [id |-> ids[firsts[k]], method |-> "PATCH", res |-> "notification",
            body |-> [isRead |-> TRUE]]]

\* ids.map(async (id) => plankaRequest(`/api/notifications/${id}`, {method: "PATCH", ...}))
PatchRequests(ids) ==
    [i \in 1..Len(ids) |-> Request("PATCH", "notification", ids[i], PatchBody)]

\* The request as it travels: who issued it, and how far it got.
InFlight(call, idx, rq) ==
    [id |-> rq.id, method |-> rq.method, res |-> rq.res, body |-> rq.body,
     call |-> call, idx |-> idx]

\* ------------------------------------------------ the remote API (server)
\* What the server's state is after it has served request r.
ServedIsRead(r) ==
    IF r.method = "PATCH" /\ r.res = "notification" /\ "isRead" \in DOMAIN r.body
    THEN [isRead EXCEPT ![r.id] = r.body.isRead]
    ELSE isRead

ServedMembers(r) ==
    IF r.res = "cardMembership" /\ r.method = "POST" THEN members \cup {r.id}
    ELSE IF r.res = "cardMembership" /\ r.method = "DELETE" THEN members \ {r.id}
    ELSE members

ServedAttachments(r) ==
    IF r.res = "attachment" /\ r.method = "DELETE" THEN attachments \ {r.id}
    ELSE attachments

\* The server can only serve what exists.
Servable(r) ==
    /\ (r.res = "cardMembership" /\ r.method = "DELETE") => r.id \in members
    /\ (r.res = "attachment" /\ r.method = "DELETE") => r.id \in attachments

\* The elements of a set of numbers, in ascending order.
RECURSIVE SetToSeq(_)
SetToSeq(S) ==
    IF S = {} THEN <<>>
    ELSE LET m == CHOOSE x \in S : \A y \in S : x <= y
         IN <<m>> \o SetToSeq(S \ {m})

\* GET /api/cards/:id answers { item, included: { cardMemberships, users,
\* attachments } }.
CardData ==
    [item |-> [id |-> 1],
     included |->
         [attachments |-> [i \in 1..Cardinality(attachments) |->
                              [id |-> SetToSeq(attachments)[i]]],
          cardMemberships |-> [i \in 1..Cardinality(members) |->
                                  [cardId |-> 1, userId |-> SetToSeq(members)[i]]],
          users |-> UserList]]

\* GET /api/cards/:id/actions answers { items, included: { users } }: the
\* card's activity log.
ActionLog ==
    [included |->
         [users |-> << [id |-> 1, name |-> "Ann", username |-> "ann", email |-> "ann@x"] >>],
     items |->
         << [id |-> 1, data |-> [text |-> 1], cardId |-> 1, userId |-> 1,
             type |-> "createCard", createdAt |-> 1, updatedAt |-> 0],
            [id |-> 2, data |-> [text |-> 2], cardId |-> 1, userId |-> 2,
             type |-> "moveCard", createdAt |-> 2, updatedAt |-> 0] >>]

ActionIds == {ActionLog.items[i].id : i \in DOMAIN ActionLog.items}

\* The JSON the server answers with, given the flags after the request.
RespData(r, flags) ==
    CASE r.res = "notifications" -> [i \in Notifs |-> [id |-> i, isRead |-> flags[i]]]
      [] r.res = "notification" -> << [id |-> r.id, isRead |-> flags[r.id]] >>
      [] r.res = "users" -> UserList
      [] r.res = "user" -> << UserList[r.id] >>
      [] r.res = "actions" -> ActionLog
      [] r.res = "action" -> << ActionLog.items[r.id] >>
      [] r.res = "cardMembership" -> << [cardId |-> 1, userId |-> r.id] >>
      [] r.res = "card" -> CardData
      [] OTHER -> <<>>

\* An answer that is JSON but not of the shape the client expects: entries
\* that are no memberships and no attachments.
Malformed == [malformed |-> TRUE]

BadData(r) ==
    IF r.res = "card"
    THEN [item |-> Malformed,
          included |-> [attachments |-> <<Malformed>>,
                        cardMemberships |-> <<Malformed>>, users |-> <<>>]]
    ELSE <<Malformed>>

\* obj?.key || []: a key that is absent (or an object that is) gives [].
OrEmpty(obj, key) == IF key \in DOMAIN obj THEN obj[key] ELSE <<>>

\* -------------------------------------------- the operations, as written
\* Each takes what plankaRequest settled with and gives what the operation
\* returns or throws.
getNotifications(resp) ==
    Wrap("Failed to get notifications",
         LET p == AwaitThenParse(resp)
         IN IF p.kind = "error" THEN p
            ELSE Ok([included |-> <<>>, notifications |-> p.value]))

getNotification(resp) ==
    Wrap("Failed to get notification",
         LET p == AwaitThenParse(resp)
         IN IF p.kind = "error" THEN p ELSE Ok(p.value[1]))

\* The async callback of ids.map: one PATCH, its response parsed.
PatchCallback(resp) ==
    LET p == AwaitThenParse(resp)
    IN IF p.kind = "error" THEN p ELSE Ok(p.value[1])

\* Promise.all over the promises ps, right after promise k has settled (k = 0:
\* right after the call): rejected with the first rejection, fulfilled with
\* the values in index order once all are fulfilled.
PromiseAllPartial(ps, k) ==
    IF k \in DOMAIN ps /\ ps[k].kind = "error"
    THEN LET done == SelectSeq([i \in DOMAIN ps |-> ps[i]], LAMBDA p : p.kind = "ok")
         IN Ok([i \in 1..Len(done) |-> done[i].value])
    ELSE IF \A i \in DOMAIN ps : ps[i].kind = "ok"
    THEN Ok([i \in DOMAIN ps |-> ps[i].value])
    ELSE Pending

PromiseAllAny(ps, k) ==
    IF k \in DOMAIN ps /\ ps[k].kind = "error" THEN ps[k]
    ELSE IF \E i \in DOMAIN ps : ps[i].kind = "ok"
    THEN Ok([i \in DOMAIN ps |-> ps[i].value])
    ELSE Pending

PromiseAllReversed(ps, k) ==
    IF k \in DOMAIN ps /\ ps[k].kind = "error" THEN ps[k]
    ELSE IF \A i \in DOMAIN ps : ps[i].kind = "ok"
    THEN Ok([i \in DOMAIN ps |-> ps[Len(ps) + 1 - i].value])
    ELSE Pending

PromiseAll(ps, k) ==
    IF k \in DOMAIN ps /\ ps[k].kind = "error" THEN ps[k]
    ELSE IF \A i \in DOMAIN ps : ps[i].kind = "ok"
    THEN Ok([i \in DOMAIN ps |-> ps[i].value])
    ELSE Pending

markNotificationsAsRead(ps, k) ==
    Wrap("Failed to mark notifications as read", PromiseAll(ps, k))

\* result.notifications.filter((n) => !n.isRead)
Unread(notifications) == SelectSeq(notifications, LAMBDA n : ~n.isRead)

getUnreadNotificationsCount(resp) ==
    Wrap("Failed to get unread notifications count",
         LET r == getNotifications(resp)
         IN IF r.kind = "error" THEN r ELSE Ok(Len(Unread(r.value.notifications))))

UnreadIdsNoFilter(notifications) ==
    [i \in 1..Len(notifications) |-> notifications[i].id]

UnreadIdsReversed(notifications) ==
    LET u == Unread(notifications) IN [i \in 1..Len(u) |-> u[Len(u) + 1 - i].id]

\* .filter((n) => !n.isRead).map((n) => n.id)
UnreadIds(notifications) ==
    LET u == Unread(notifications) IN [i \in 1..Len(u) |-> u[i].id]

\* markAllNotificationsAsRead up to its second await: Pending stands for
\* "goes on to markNotificationsAsRead(unreadIds)".
markAllBeforePatch(resp) ==
    Wrap("Failed to mark all notifications as read",
         LET r == getNotifications(resp)
         IN IF r.kind = "error" THEN r
            ELSE IF Len(UnreadIds(r.value.notifications)) = 0 THEN Ok(<<>>)
            ELSE Pending)

\* return await markNotificationsAsRead(unreadIds), inside markAll's try/catch
markAllNotificationsAsRead(ps, k) ==
    Wrap("Failed to mark all notifications as read", markNotificationsAsRead(ps, k))

getUsers(resp) ==
    Wrap("Failed to get users", AwaitThenParse(resp))

getUser(resp) ==
    Wrap("Failed to get user",
         LET p == AwaitThenParse(resp)
         IN IF p.kind = "error" THEN p ELSE Ok(p.value[1]))

\* const userName = user.name || ""
searchUsersByName(name, resp) ==
    Wrap("Failed to search users by name",
         LET users == getUsers(resp)
         IN IF users.kind = "error" THEN users
            ELSE Ok(SelectSeq(users.value,
                              LAMBDA user : includes(toLowerCase(OrEmpty(user, "name")),
                                                     toLowerCase(name)))))

\* userEmail.toLowerCase() === searchLower
strictEqualsAsIncludes(a, b) == includes(a, b)

strictEquals(a, b) == a = b

searchUsersByEmail(email, resp) ==
    Wrap("Failed to search users by email",
         LET users == getUsers(resp)
         IN IF users.kind = "error" THEN users
            ELSE Ok(SelectSeq(users.value,
                              LAMBDA user : strictEquals(toLowerCase(OrEmpty(user, "email")),
                                                         toLowerCase(email)))))

searchUsersByUsername(username, resp) ==
    Wrap("Failed to search users by username",
         LET users == getUsers(resp)
         IN IF users.kind = "error" THEN users
            ELSE Ok(SelectSeq(users.value,
                              LAMBDA user : strictEquals(toLowerCase(OrEmpty(user, "username")),
                                                         toLowerCase(username)))))

\* No try/catch of its own.
getUserIdByName(name, resp) ==
    LET users == searchUsersByName(name, resp)
    IN IF users.kind = "error" THEN users
       ELSE IF Len(users.value) > 0 THEN Ok(users.value[1].id) ELSE Ok("null")

\* No try/catch and no response validation.
deleteAttachment(resp) ==
    LET a == Awaited(resp)
    IN IF a.kind = "error" THEN a ELSE Ok([success |-> TRUE])

addCardMember(resp) ==
    Wrap("Failed to add member to card",
         LET p == AwaitThenParse(resp)
         IN IF p.kind = "error" THEN p ELSE Ok(p.value[1]))

removeCardMember(resp) ==
    Wrap("Failed to remove member from card",
         LET p == AwaitThenParse(resp)
         IN IF p.kind = "error" THEN p ELSE Ok(p.value[1]))

\* response?.included
IncludedOf(data) == OrEmpty(data, "included")

\* No response validation: the response is only cast to a type.
getAttachments(resp) ==
    Wrap("Failed to get attachments",
         LET a == Awaited(resp)
         IN IF a.kind = "error" THEN a
            ELSE Ok(OrEmpty(IncludedOf(resp.data), "attachments")))

\* obj.key of a JavaScript object: undefined when the key is absent.
Undefined == [undefined |-> TRUE]

Field(obj, key) == IF key \in DOMAIN obj THEN obj[key] ELSE Undefined

\* users.find((u) => u.id === membership.userId): the first such user.
FindUserFirstOfList(users, userId) ==
    IF Len(users) > 0 THEN users[1] ELSE Undefined

FindUser(users, userId) ==
    LET hits == {i \in DOMAIN users : Field(users[i], "id") = userId}
    IN IF hits = {} THEN Undefined
       ELSE users[CHOOSE i \in hits : \A j \in hits : i <= j]

\* cardMemberships.map((membership) => ({ membership, user }))
JoinMembers(cardMemberships, users) ==
    [i \in 1..Len(cardMemberships) |->
        [user |-> FindUser(users, Field(cardMemberships[i], "userId")),
         membership |-> cardMemberships[i]]]

\* No response validation either.
getCardMembers(resp) ==
    Wrap("Failed to get card members",
         LET a == Awaited(resp)
         IN IF a.kind = "error" THEN a
            ELSE Ok(JoinMembers(OrEmpty(IncludedOf(resp.data), "cardMemberships"),
                                OrEmpty(IncludedOf(resp.data), "users"))))

\* ------------------------------------------------------- card actions
\* const parsedResponse = ActionsResponseSchema.parse(response);
\* return { actions: parsedResponse.items, included: parsedResponse.included || {} }
getCardActions(resp) ==
    Wrap("Failed to get card actions",
         LET p == AwaitThenParse(resp)
         IN IF p.kind = "error" THEN p
            ELSE Ok([included |-> OrEmpty(p.value, "included"),
                     actions |-> p.value.items]))

getAction(resp) ==
    Wrap("Failed to get action",
         LET p == AwaitThenParse(resp)
         IN IF p.kind = "error" THEN p ELSE Ok(p.value[1]))

\* A JavaScript string value; obj.key is such a value or undefined.
Str(t) == [str |-> t]

Prop(obj, key) == IF key \in DOMAIN obj THEN Str(obj[key]) ELSE Undefined

\* a || b
Truthy(v) == v # Undefined /\ v # Str("")

OrElse(a, b) == IF Truthy(a) THEN a ELSE b

\* usersMap.set(user.id, user) for each user, then usersMap.get(userId): the
\* last user of the list with that id.
usersMapGet(users, userId) ==
    LET hits == {i \in DOMAIN users : users[i].id = userId}
    IN IF hits = {} THEN Undefined
       ELSE users[CHOOSE i \in hits : \A j \in hits : j <= i]

\* user ? user.name || user.username || user.email : "Unknown user"
userName(user) ==
    IF user = Undefined THEN Str("Unknown user")
    ELSE OrElse(Prop(user, "name"), OrElse(Prop(user, "username"), Prop(user, "email")))

\* if (included.users && Array.isArray(included.users)) ...
IncludedUsers(included) == OrEmpty(included, "users")

formattedActions(actions, included) ==
    [i \in 1..Len(actions) |->
        [id |-> actions[i].id,
         data |-> actions[i].data,
         userId |-> actions[i].userId,
         type |-> actions[i].type,
         createdAt |-> actions[i].createdAt,
         user |-> userName(usersMapGet(IncludedUsers(included), actions[i].userId))]]

\* formattedActions.slice(0, 10)
RecentLimit == 10

sliceFromEnd(s, from, to) ==
    SubSeq(s, IF Len(s) > to - from THEN Len(s) - (to - from) + 1 ELSE 1, Len(s))

slice(s, from, to) == SubSeq(s, from + 1, IF to < Len(s) THEN to ELSE Len(s))

\* formattedActions.filter((a) => a.type === t).length
CountOfType(formatted, t) == Len(SelectSeq(formatted, LAMBDA a : a.type = t))

getCardActivitySummary(resp) ==
    Wrap("Failed to get card activity summary",
         LET r == getCardActions(resp)
         IN IF r.kind = "error" THEN r
            ELSE LET formatted == formattedActions(r.value.actions, r.value.included)
                 IN Ok([totalActions |-> Len(formatted),
                        byType |-> [createCard |-> CountOfType(formatted, "createCard"),
                                    moveCard |-> CountOfType(formatted, "moveCard"),
                                    commentCard |-> CountOfType(formatted, "commentCard")],
                        recentActions |-> slice(formatted, 0, RecentLimit),
                        allActions |-> formatted]))

\* -------------------------------------------------------- Spec: actions
SimpleOps ==
    {"getNotifications", "getNotification", "getUnreadNotificationsCount", "getUsers",
     "searchUsersByName", "getUserIdByName", "deleteAttachment", "addCardMember",
     "removeCardMember", "getAttachments", "getCardMembers", "getUser",
     "searchUsersByEmail", "searchUsersByUsername", "getCardActions", "getAction",
     "getCardActivitySummary"}

\* What a one-request operation returns or throws once its request has settled.
SimpleResult(o, a, resp) ==
    CASE o = "getNotifications" -> getNotifications(resp)
      [] o = "getNotification" -> getNotification(resp)
      [] o = "getUnreadNotificationsCount" -> getUnreadNotificationsCount(resp)
      [] o = "getUsers" -> getUsers(resp)
      [] o = "searchUsersByName" -> searchUsersByName(a, resp)
      [] o = "getUserIdByName" -> getUserIdByName(a, resp)
      [] o = "deleteAttachment" -> deleteAttachment(resp)
      [] o = "addCardMember" -> addCardMember(resp)
      [] o = "removeCardMember" -> removeCardMember(resp)
      [] o = "getAttachments" -> getAttachments(resp)
      [] o = "getCardMembers" -> getCardMembers(resp)
      [] o = "getUser" -> getUser(resp)
      [] o = "searchUsersByEmail" -> searchUsersByEmail(a, resp)
      [] o = "searchUsersByUsername" -> searchUsersByUsername(a, resp)
      [] o = "getCardActions" -> getCardActions(resp)
      [] o = "getAction" -> getAction(resp)
      [] o = "getCardActivitySummary" -> getCardActivitySummary(resp)

\* Requests left behind by completed invocations: nothing in the client waits
\* for them, so only what they ask of the server is kept.
Stale(n) == {[r EXCEPT !.call = 0, !.idx = 0] : r \in n}

\* The invocation runs synchronously up to its first await: its requests are
\* issued, in order, before anything else happens.
Invoke(o, a, rqs) ==
    /\ pc = "idle"
    /\ op' = o
    /\ arg' = a
    /\ sent' = rqs
    /\ net' = net \cup {InFlight(1, i, rqs[i]) : i \in DOMAIN rqs}
    /\ snapshot' = <<>>
    /\ order' = <<>>
    /\ UNCHANGED <<remoteVars, uploadVars>>

InvokeSimple(o, a, rq) ==
    /\ Invoke(o, a, <<rq>>)
    /\ pc' = "await"
    /\ promises' = <<>>
    /\ result' = Pending

CallGetNotifications ==
    InvokeSimple("getNotifications", <<>>, Request("GET", "notifications", 0, NoBody))

CallGetNotificationByPatch ==
    \E id \in Notifs :
        InvokeSimple("getNotification", id,
                     Request("PATCH", "notification", id, PatchBody))

CallGetNotification ==
    \E id \in Notifs :
        InvokeSimple("getNotification", id, Request("GET", "notification", id, NoBody))

CallGetUnreadNotificationsCount ==
    InvokeSimple("getUnreadNotificationsCount", <<>>,
                 Request("GET", "notifications", 0, NoBody))

CallGetUsers ==
    InvokeSimple("getUsers", <<>>, Request("GET", "users", 0, NoBody))

CallSearchUsersByName ==
    \E name \in SearchNames :
        InvokeSimple("searchUsersByName", name, Request("GET", "users", 0, NoBody))

CallGetUserIdByName ==
    \E name \in SearchNames :
        InvokeSimple("getUserIdByName", name, Request("GET", "users", 0, NoBody))

CallDeleteAttachment ==
    \E id \in AttIds :
        InvokeSimple("deleteAttachment", id, Request("DELETE", "attachment", id, NoBody))

CallAddCardMember ==
    \E u \in UserIds :
        InvokeSimple("addCardMember", u,
                     Request("POST", "cardMembership", u, [userId |-> u]))

CallRemoveCardMember ==
    \E u \in UserIds :
        InvokeSimple("removeCardMember", u, Request("DELETE", "cardMembership", u, NoBody))

CallGetAttachments ==
    InvokeSimple("getAttachments", 1, Request("GET", "card", 1, NoBody))

CallGetCardMembers ==
    InvokeSimple("getCardMembers", 1, Request("GET", "card", 1, NoBody))

CallGetUser ==
    \E id \in DOMAIN UserList :
        InvokeSimple("getUser", id, Request("GET", "user", id, NoBody))

CallSearchUsersByEmail ==
    \E email \in SearchEmails :
        InvokeSimple("searchUsersByEmail", email, Request("GET", "users", 0, NoBody))

CallSearchUsersByUsername ==
    \E username \in SearchUsernames :
        InvokeSimple("searchUsersByUsername", username,
                     Request("GET", "users", 0, NoBody))

CallGetCardActions ==
    InvokeSimple("getCardActions", 1, Request("GET", "actions", 1, NoBody))

CallGetAction ==
    \E id \in ActionIds :
        InvokeSimple("getAction", id, Request("GET", "action", id, NoBody))

CallGetCardActivitySummary ==
    InvokeSimple("getCardActivitySummary", 1, Request("GET", "actions", 1, NoBody))

\* markNotificationsAsRead(ids): every PATCH is issued by ids.map before the
\* await; Promise.all of no promise is fulfilled at once with [].
CallMarkNotificationsAsRead ==
    \E ids \in SeqsUpTo(Notifs, MaxIds) :
        /\ Invoke("markNotificationsAsRead", ids, PatchRequests(ids))
        /\ promises' = [i \in 1..Len(ids) |-> Pending]
        /\ result' = markNotificationsAsRead(promises', 0)
        /\ pc' = IF result'.kind = "pending" THEN "await" ELSE "done"

\* markAllNotificationsAsRead(): first await getNotifications().
CallMarkAllNotificationsAsRead ==
    /\ Invoke("markAllNotificationsAsRead", <<>>,
              <<Request("GET", "notifications", 0, NoBody)>>)
    /\ pc' = "await"
    /\ promises' = <<>>
    /\ result' = Pending

\* The invocation that issued r is still waiting for it.
Awaits(r) == r.call = 1 /\ pc = "await"

\* The server serves request r: it fails it (nothing changes), or carries it
\* out and answers, with JSON of the expected shape or not.  The answer's way
\* back is not a step of its own: nothing the client or the server does in
\* between reads it.
Outcomes == {"ok", "bad", "error"}

Response(r, outcome) ==
    [status |-> outcome,
     data |-> IF outcome = "ok" THEN RespData(r, ServedIsRead(r))
              ELSE IF outcome = "bad" THEN BadData(r)
              ELSE <<>>]

Serve(r, outcome) ==
    /\ r \in net
    /\ outcome # "error" => Servable(r)
    /\ isRead' = IF outcome = "error" THEN isRead ELSE ServedIsRead(r)
    /\ members' = IF outcome = "error" THEN members ELSE ServedMembers(r)
    /\ attachments' = IF outcome = "error" THEN attachments ELSE ServedAttachments(r)

\* The request of a one-request operation settles: the operation completes.
ReturnSimple ==
    \E r \in net : \E outcome \in Outcomes :
        /\ Awaits(r)
        /\ op \in SimpleOps
        /\ Serve(r, outcome)
        /\ net' = net \ {r}
        /\ result' = SimpleResult(op, arg, Response(r, outcome))
        /\ snapshot' = IF op = "getUnreadNotificationsCount" /\ outcome = "ok"
                       THEN Response(r, outcome).data ELSE snapshot
        /\ pc' = "done"
        /\ UNCHANGED <<op, arg, sent, promises, order, uploadVars>>

\* One PATCH settles: its promise settles, and with it Promise.all may
\* settle, which completes the call through the microtask queue before any
\* other response is looked at.
PatchSettled ==
    \E r \in net : \E outcome \in Outcomes :
        /\ Awaits(r)
        /\ op \in {"markNotificationsAsRead", "markAllNotificationsAsRead"}
        /\ r.method = "PATCH"
        /\ Serve(r, outcome)
        /\ net' = net \ {r}
        /\ LET k == IF op = "markNotificationsAsRead" THEN r.idx ELSE r.idx - 1
           IN /\ promises' = [promises EXCEPT ![k] = PatchCallback(Response(r, outcome))]
              /\ order' = Append(order, k)
              /\ result' = IF op = "markNotificationsAsRead"
                           THEN markNotificationsAsRead(promises', k)
                           ELSE markAllNotificationsAsRead(promises', k)
        /\ pc' = IF result'.kind = "pending" THEN "await" ELSE "done"
        /\ UNCHANGED <<op, arg, sent, snapshot, uploadVars>>

\* markAllNotificationsAsRead: getNotifications() has settled.  It throws,
\* returns [] or calls markNotificationsAsRead(unreadIds), which issues the
\* PATCHes at once.
MarkAllGotNotifications ==
    \E r \in net : \E outcome \in Outcomes :
        /\ Awaits(r)
        /\ op = "markAllNotificationsAsRead"
        /\ r.method = "GET"
        /\ Serve(r, outcome)
        /\ LET resp == Response(r, outcome)
               first == markAllBeforePatch(resp)
               ids == IF first.kind = "pending" THEN UnreadIds(resp.data) ELSE <<>>
               rqs == PatchRequests(ids)
           IN /\ result' = first
              /\ snapshot' = IF outcome = "ok" THEN resp.data ELSE snapshot
              /\ promises' = [i \in 1..Len(ids) |-> Pending]
              /\ sent' = sent \o rqs
              /\ net' = (net \ {r}) \cup {InFlight(1, i + 1, rqs[i]) : i \in DOMAIN rqs}
              /\ pc' = IF first.kind = "pending" THEN "await" ELSE "done"
        /\ UNCHANGED <<op, arg, order, uploadVars>>

\* A request whose invocation has already completed is served: its callback
\* runs, and nothing is waiting for it.
ServeLate ==
    \E r \in net : \E outcome \in Outcomes :
        /\ ~Awaits(r)
        /\ Serve(r, outcome)
        /\ net' = net \ {r}
        /\ UNCHANGED <<pc, op, arg, sent, promises, order, snapshot, result, uploadVars>>

\* The caller has taken the result or the error; the next invocation can start.
Returned ==
    /\ pc = "done"
    /\ pc' = "idle"
    /\ op' = "none"
    /\ arg' = <<>>
    /\ sent' = <<>>
    /\ promises' = <<>>
    /\ order' = <<>>
    /\ snapshot' = <<>>
    /\ result' = Pending
    /\ net' = Stale(net)
    /\ UNCHANGED <<remoteVars, uploadVars>>

\* Under Spec no upload runs.
UploadIdle ==
    /\ impl = 1
    /\ up = <<>>
    /\ fs = <<>>

Init ==
    /\ isRead \in [Notifs -> BOOLEAN]
    /\ members = {}
    /\ attachments = AttIds
    /\ net = {}
    /\ pc = "idle"
    /\ op = "none"
    /\ arg = <<>>
    /\ sent = <<>>
    /\ promises = <<>>
    /\ order = <<>>
    /\ snapshot = <<>>
    /\ result = Pending
    /\ UploadIdle

Next ==
    \/ CallGetNotifications
    \/ CallGetNotification
    \/ CallGetUnreadNotificationsCount
    \/ CallGetUsers
    \/ CallSearchUsersByName
    \/ CallGetUserIdByName
    \/ CallDeleteAttachment
    \/ CallAddCardMember
    \/ CallRemoveCardMember
    \/ CallGetAttachments
    \/ CallGetCardMembers
    \/ CallGetUser
    \/ CallSearchUsersByEmail
    \/ CallSearchUsersByUsername
    \/ CallGetCardActions
    \/ CallGetAction
    \/ CallGetCardActivitySummary
    \/ CallMarkNotificationsAsRead
    \/ CallMarkAllNotificationsAsRead
    \/ ReturnSimple
    \/ PatchSettled
    \/ MarkAllGotNotifications
    \/ ServeLate
    \/ Returned

Spec == Init /\ [][Next]_vars

\* ------------------------------------------------------------ SpecUpload
\* uploadAttachment and uploadAttachmentFromUrl.  attachments.ts holds two
\* versions of both (lines 83-305 and lines 428-621); a build runs one of
\* them, impl.  Two invocations run interleaved: each runs from one await to
\* the next without interruption.
Inv == {1, 2}
TempNames == {"a", "b"}          \* file names in the temp directory
Paths == TempNames \cup {"local", "missing"}
NoPath == "null"                 \* tempFilePath = null
NoFile == "absent"               \* no file at the path
Bytes(i) == IF i = 1 THEN "d1" ELSE "d2"   \* what invocation i downloads

IdleInv ==
    [uop |-> "none", upc |-> "idle", uname |-> NoPath, upath |-> NoPath,
     udata |-> NoFile, uread |-> NoFile, ulog |-> <<>>, ures |-> Pending,
     uclean |-> "none"]

\* if (!fs.existsSync(options.filePath)) throw new Error(`File not found: ...`),
\* caught and wrapped by uploadAttachment itself; Pending: goes on to the token.
uploadAttachmentNoCheck(exists) == Pending

uploadAttachmentCheck(exists) ==
    Wrap("Failed to upload attachment",
         IF ~exists THEN Err(<<"File not found">>) ELSE Pending)

\* let tempFilePath = null ... tempFilePath = path.join(tempDir, filename): the
\* second version sets it before the download, the first after it.
PathBeforeDownload(v, filename) == IF v = 2 THEN filename ELSE NoPath

\* if (bufferData.length === 0) throw ...: only the first version has it.
EmptyCheck(v, data) ==
    IF v = 1 /\ data = "empty" THEN Err(<<"Downloaded file is empty">>) ELSE Pending

\* finally { if (tempFilePath && fs.existsSync(tempFilePath)) unlinkSync }
UnlinkTried(path, files) == path # NoPath /\ files[path] # NoFile

CleanupNever(path, files, unlinkOk) == files

Cleanup(path, files, unlinkOk) ==
    IF UnlinkTried(path, files) /\ unlinkOk
    THEN [files EXCEPT ![path] = NoFile]
    ELSE files

\* try { fs.unlinkSync(tempFilePath) } catch (cleanupError) { console.error(..) }:
\* what the call completes with after the finally block, r being what the
\* try/catch before it returned or threw.
AfterCleanupThrows(r, tried, unlinkOk) ==
    IF tried /\ ~unlinkOk THEN Err(<<"Failed to clean up temp file">>) ELSE r

AfterCleanup(r, tried, unlinkOk) == r

\* The invocation completes with r: uploadAttachmentFromUrl wraps and cleans
\* up (unlinkSync may throw, which is logged), uploadAttachment just returns.
FinishFrom(i, u, r, unlinkOk) ==
    IF u.uop = "uploadAttachmentFromUrl"
    THEN /\ unlinkOk \/ UnlinkTried(u.upath, fs)
         /\ fs' = Cleanup(u.upath, fs, unlinkOk)
         /\ up' = [up EXCEPT ![i] =
                      [u EXCEPT !.upc = "done",
                                !.ures = AfterCleanup(
                                             Wrap("Failed to upload attachment from URL", r),
                                             UnlinkTried(u.upath, fs), unlinkOk),
                                !.uclean = IF ~UnlinkTried(u.upath, fs) THEN "none"
                                           ELSE IF unlinkOk THEN "removed" ELSE "failed"]]
    ELSE /\ unlinkOk
         /\ fs' = fs
         /\ up' = [up EXCEPT ![i] = [u EXCEPT !.upc = "done", !.ures = r]]

Finish(i, r, unlinkOk) == FinishFrom(i, up[i], r, unlinkOk)

\* uploadAttachment({cardId, filePath}) is called: the existence check, then
\* the token is asked for.
CallUploadAttachment(i) ==
    \E path \in Paths :
        /\ up[i].upc = "idle"
        /\ LET check == uploadAttachmentCheck(fs[path] # NoFile)
           IN IF check.kind = "error"
              THEN /\ up' = [up EXCEPT ![i].uop = "uploadAttachment", ![i].upc = "done",
                                       ![i].upath = path, ![i].ures = check]
                   /\ fs' = fs
              ELSE /\ up' = [up EXCEPT ![i].uop = "uploadAttachment", ![i].upc = "token",
                                       ![i].upath = path, ![i].ulog = <<"auth">>]
                   /\ fs' = fs
        /\ UNCHANGED <<remoteVars, callVars, impl>>

\* uploadAttachmentFromUrl({cardId, url, filename}) is called: up to the
\* await of fetch(url).
CallUploadAttachmentFromUrl(i) ==
    \E filename \in TempNames :
        /\ up[i].upc = "idle"
        /\ up' = [up EXCEPT ![i].uop = "uploadAttachmentFromUrl", ![i].upc = "fetch",
                            ![i].uname = filename,
                            ![i].upath = PathBeforeDownload(impl, filename),
                            ![i].ulog = <<"download">>]
        /\ UNCHANGED <<remoteVars, callVars, impl, fs>>

\* fetch(url) settles: a network error or a non-2xx status throws; otherwise
\* the name of the temp file is known (first version) and the body is awaited.
FetchSettled(i) ==
    \E ok \in BOOLEAN, unlinkOk \in BOOLEAN :
        /\ up[i].upc = "fetch"
        /\ IF ok
           THEN /\ unlinkOk
                /\ up' = [up EXCEPT ![i].upc = "body", ![i].upath = up[i].uname]
                /\ fs' = fs
           ELSE Finish(i, Err(<<"Failed to download file">>), unlinkOk)
        /\ UNCHANGED <<remoteVars, callVars, impl>>

\* response.arrayBuffer() settles.  With the bytes: the empty check (first
\* version), writeFileSync, and uploadAttachment runs up to its token await.
BodySettled(i) ==
    \E data \in {"failed", "empty", Bytes(i)}, unlinkOk \in BOOLEAN :
        /\ up[i].upc = "body"
        /\ IF data = "failed"
           THEN Finish(i, Err(<<"fetch failed">>), unlinkOk)
           ELSE IF EmptyCheck(impl, data).kind = "error"
           THEN FinishFrom(i, [up[i] EXCEPT !.udata = data], EmptyCheck(impl, data),
                           unlinkOk)
           ELSE /\ unlinkOk
                /\ fs' = [fs EXCEPT ![up[i].upath] = data]
                \* uploadAttachment's existence check passes: the file was just written
                /\ uploadAttachmentCheck(TRUE).kind = "pending"
                /\ up' = [up EXCEPT ![i].udata = data, ![i].upc = "token",
                                    ![i].ulog = Append(@, "auth")]
        /\ UNCHANGED <<remoteVars, callVars, impl>>

\* The token arrives or not.  With it the form is submitted: the upload
\* request is issued with a read stream on the file, opened later.
TokenSettled(i) ==
    \E ok \in BOOLEAN, unlinkOk \in BOOLEAN :
        /\ up[i].upc = "token"
        /\ IF ok
           THEN /\ unlinkOk
                /\ up' = [up EXCEPT ![i].upc = "stream", ![i].ulog = Append(@, "upload")]
                /\ fs' = fs
           ELSE Finish(i, Err(<<"Failed to upload attachment", "Authentication failed">>),
                       unlinkOk)
        /\ UNCHANGED <<remoteVars, callVars, impl>>

\* The read stream opens the file and sends what is in it now; a file that is
\* gone fails the upload.
StreamRead(i) ==
    \E unlinkOk \in BOOLEAN :
        /\ up[i].upc = "stream"
        /\ IF fs[up[i].upath] = NoFile
           THEN Finish(i, Err(<<"Failed to upload attachment", "ENOENT">>), unlinkOk)
           ELSE /\ unlinkOk
                /\ up' = [up EXCEPT ![i].upc = "response", ![i].uread = fs[up[i].upath]]
                /\ fs' = fs
        /\ UNCHANGED <<remoteVars, callVars, impl>>

\* The upload's response arrives: a 2xx with a valid attachment, a 2xx that
\* fails AttachmentResponseSchema.parse, or another status.
UploadSettled(i) ==
    \E outcome \in Outcomes, unlinkOk \in BOOLEAN :
        /\ up[i].upc = "response"
        /\ Finish(i,
                  Wrap("Failed to upload attachment",
                       IF outcome = "ok" THEN Ok(<<up[i].uread>>)
                       ELSE IF outcome = "bad" THEN Err(ZodError)
                       ELSE Err(<<"Upload failed">>)),
                  unlinkOk)
        /\ UNCHANGED <<remoteVars, callVars, impl>>

\* The caller has taken the outcome; the slot can run another invocation.
UploadReturned(i) ==
    /\ up[i].upc = "done"
    /\ up' = [up EXCEPT ![i] = IdleInv]
    /\ UNCHANGED <<remoteVars, callVars, impl, fs>>

InitUpload ==
    /\ isRead = [n \in Notifs |-> FALSE]
    /\ members = {}
    /\ attachments = AttIds
    /\ net = {}
    /\ pc = "idle"
    /\ op = "none"
    /\ arg = <<>>
    /\ sent = <<>>
    /\ promises = <<>>
    /\ order = <<>>
    /\ snapshot = <<>>
    /\ result = Pending
    /\ impl \in {1, 2}
    /\ up = [i \in Inv |-> IdleInv]
    /\ fs = [p \in Paths |-> IF p = "local" THEN "L" ELSE NoFile]

NextUpload ==
    \E i \in Inv :
        \/ CallUploadAttachment(i)
        \/ CallUploadAttachmentFromUrl(i)
        \/ FetchSettled(i)
        \/ BodySettled(i)
        \/ TokenSettled(i)
        \/ StreamRead(i)
        \/ UploadSettled(i)
        \/ UploadReturned(i)

SpecUpload == InitUpload /\ [][NextUpload]_vars

\* ------------------------------------------- the temp file's name
\* uploadAttachmentFromUrl names the temp file from options.filename, the URL
\* and the response's content-type.  A URL is its pathname and its query, both
\* strings (sequences of characters); a content-type header is the list of its
\* ";"-separated parts, empty when there is no header.
EndsWith(s, suffix) ==
    /\ Len(s) >= Len(suffix)
    /\ SubSeq(s, Len(s) - Len(suffix) + 1, Len(s)) = suffix

\* path.basename(urlPath): trailing slashes dropped, then what follows the
\* last slash.
RECURSIVE StripTrailingSlashes(_)
StripTrailingSlashes(p) ==
    IF Len(p) > 0 /\ p[Len(p)] = "/" THEN StripTrailingSlashes(SubSeq(p, 1, Len(p) - 1))
    ELSE p

basename(p) ==
    LET q == StripTrailingSlashes(p)
        slashes == {i \in DOMAIN q : q[i] = "/"}
        last == IF slashes = {} THEN 0 ELSE CHOOSE i \in slashes : \A j \in slashes : j <= i
    IN SubSeq(q, last + 1, Len(q))

\* /\.[a-z0-9]{2,4}$/i.test(urlFilename)
Alnum == {LowerCase[i] : i \in DOMAIN LowerCase} \cup {UpperCase[i] : i \in DOMAIN UpperCase}
             \cup {Digits[i] : i \in DOMAIN Digits}

HasDottedExtension(name) ==
    \E k \in 2..4 :
        /\ Len(name) >= k + 1
        /\ name[Len(name) - k] = "."
        /\ \A j \in (Len(name) - k + 1)..Len(name) : name[j] \in Alnum

\* mimeToExt[contentType.split(";")[0].trim()] || ""
mimeToExt(mediaType) ==
    CASE mediaType = "image/jpeg" -> <<".", "j", "p", "g">>
      [] mediaType = "image/jpg" -> <<".", "j", "p", "g">>
      [] mediaType = "image/png" -> <<".", "p", "n", "g">>
      [] mediaType = "image/gif" -> <<".", "g", "i", "f">>
      [] mediaType = "image/svg+xml" -> <<".", "s", "v", "g">>
      [] mediaType = "image/webp" -> <<".", "w", "e", "b", "p">>
      [] mediaType = "application/pdf" -> <<".", "p", "d", "f">>
      [] mediaType = "text/plain" -> <<".", "t", "x", "t">>
      [] mediaType = "application/json" -> <<".", "j", "s", "o", "n">>
      [] mediaType = "application/msword" -> <<".", "d", "o", "c">>
      [] mediaType = "application/vnd.openxmlformats-officedocument.wordprocessingml.document" -> <<".", "d", "o", "c", "x">>
      [] OTHER -> <<>>

\* The extensions of the regex matched against the end of options.url, by
\* version of the file.
KnownExtensions(v) ==
    IF v = 1
    THEN {<<"j", "p", "g">>,
          <<"j", "p", "e", "g">>,
          <<"p", "n", "g">>,
          <<"g", "i", "f">>,
          <<"p", "d", "f">>,
          <<"d", "o", "c">>,
          <<"d", "o", "c", "x">>,
          <<"t", "x", "t">>,
          <<"s", "v", "g">>,
          <<"w", "e", "b", "p">>,
          <<"j", "s", "o", "n">>}
    ELSE {<<"j", "p", "g">>,
          <<"j", "p", "e", "g">>,
          <<"p", "n", "g">>,
          <<"g", "i", "f">>,
          <<"p", "d", "f">>,
          <<"d", "o", "c">>,
          <<"d", "o", "c", "x">>,
          <<"t", "x", "t">>,
          <<"s", "v", "g">>}

\* options.url as a string
UrlString(url) == <<"http://h">> \o url.path \o url.query

\* options.url.match(/\.(jpg|...)$/i)?.[0]: the matched end of the URL, as it
\* is written there, or nothing.
UrlExtension(v, url) ==
    LET u == UrlString(url)
        hits == {e \in KnownExtensions(v) : EndsWith(toLowerCase(u), <<".">> \o e)}
    IN IF hits = {} THEN <<>>
       ELSE LET e == CHOOSE e \in hits : TRUE
            IN SubSeq(u, Len(u) - Len(e), Len(u))

\* `download_${Date.now()}${extension}`
Generated(extension) == <<"download_", "now">> \o extension

\* The first version: lines 214-262.
TempFilename1(options, contentType) ==
    IF options.filename # <<>> THEN options.filename
    ELSE LET urlFilename == basename(options.url.path)
         IN IF urlFilename # <<>> /\ urlFilename # <<"/">> /\ HasDottedExtension(urlFilename)
            THEN urlFilename
            ELSE LET byType == IF contentType # <<>> THEN mimeToExt(contentType[1])
                               ELSE <<>>
                     byUrl == IF UrlExtension(1, options.url) # <<>>
                              THEN UrlExtension(1, options.url)
                              ELSE <<".", "b", "i", "n">>
                 IN Generated(IF byType # <<>> THEN byType ELSE byUrl)

\* The second version: lines 561-573.
TempFilename2(options, contentType) ==
    IF options.filename # <<>> THEN options.filename
    ELSE LET urlFilename == basename(options.url.path)
         IN IF urlFilename = <<>> \/ urlFilename = <<"/">>
            THEN Generated(UrlExtension(2, options.url))
            ELSE urlFilename

TempFilename(v, options, contentType) ==
    IF v = 1 THEN TempFilename1(options, contentType)
    ELSE TempFilename2(options, contentType)

\* -------------------------------------------------------------- SpecPure
\* What the operations compute from a response, on responses drawn from
\* bounded sets: arg holds the response's JSON, result what the operation
\* returned for it.
MaxMemberships == 2     \* longest included.cardMemberships
MaxUsers == 2           \* longest included.users / users list

\* included.users of a card: ids may repeat.
CardUsers == {[id |-> i, name |-> n] : i \in 1..2, n \in {<<"a">>, <<"b">>}}

\* included.cardMemberships: members 1 and 2 may be in included.users, 3 never.
CardMemberships == {[cardId |-> 1, userId |-> u] : u \in 1..3}

\* The card answers, with included, cardMemberships and users present or not.
CardAnswers ==
    LET mss == SeqsUpTo(CardMemberships, MaxMemberships)
        uss == SeqsUpTo(CardUsers, MaxUsers)
    IN {[item |-> [id |-> 1]]}
       \cup {[item |-> [id |-> 1], included |-> <<>>]}
       \cup {[item |-> [id |-> 1], included |-> [cardMemberships |-> ms]] : ms \in mss}
       \cup {[item |-> [id |-> 1], included |-> [users |-> us]] : us \in uss}
       \cup {[item |-> [id |-> 1], included |-> [cardMemberships |-> ms, users |-> us]] :
                 ms \in mss, us \in uss}

\* uploadAttachmentFromUrl: options.filename (empty: not given), the URL and
\* the content-type header of the download.
UrlPaths ==
    {<<"/">>,
     <<"/", "f">>,
     <<"/", "f", ".", "p", "n", "g">>,
     <<"/", "d", "/", "f", ".", "j", "p", "g">>,
     <<"/", "f", ".", "p">>,
     <<"/", "f", ".", "a", "b", "c", "d", "e">>,
     <<"/", "F", ".", "P", "N", "G">>,
     <<"/", "f", ".", "t", "a", "r", ".", "g", "z">>,
     <<"/", "d", "/">>,
     <<"/", "f", ".", "p", "-", "g">>}

UrlQueries ==
    {<<>>,
     <<"?", "a", "=", "b", ".", "p", "d", "f">>,
     <<"?", "x">>,
     <<"?", "a", "=", "b", ".", "w", "e", "b", "p">>}

ContentTypes ==
    {<<>>, <<"image/png">>, <<"image/png", " charset=utf-8">>, <<"IMAGE/PNG">>,
     <<"application/octet-stream">>, <<"text/plain">>}

FilenameInputs ==
    [options : [filename : {<<>>, <<"n", ".", "t", "x", "t">>},
                url : [path : UrlPaths, query : UrlQueries]],
     contentType : ContentTypes]

\* getCardActivitySummary: the answers of GET /api/cards/:id/actions that pass
\* ActionsResponseSchema.  items is validated, included is z.record(z.any()).
MaxActions == 11        \* longest list of actions

ActionTypes == {"createCard", "moveCard", "commentCard"}

\* The k-th action of a list: its type and user follow a repeating pattern.
ActionAt(k, types, userIds) ==
    [id |-> k,
     data |-> [text |-> k],
     cardId |-> 1,
     userId |-> userIds[((k - 1) % Len(userIds)) + 1],
     type |-> types[((k - 1) % Len(types)) + 1],
     createdAt |-> k,
     updatedAt |-> 0]

ActionLists(lengths, typePatterns, userPatterns) ==
    {[k \in 1..n |-> ActionAt(k, types, userIds)] :
        n \in lengths, types \in typePatterns, userIds \in userPatterns}

\* included.users: a user has its id and any of name, username, email; a name
\* may be the empty string.
ActionUsers ==
    UNION {{[id |-> i, name |-> "Ann", username |-> "ann", email |-> "ann@x"],
            [id |-> i, username |-> "bob", email |-> "bob@x"],
            [id |-> i, name |-> "", email |-> "cy@x"],
            [id |-> i, name |-> "", username |-> ""],
            [id |-> i]} : i \in 1..2}

\* Long lists with a few user lists, short lists with every user list.
ActionsAnswers ==
    LET long == ActionLists(0..MaxActions,
                            SeqsUpTo(ActionTypes, 3) \ {<<>>},
                            {<<1>>, <<1, 2>>, <<3>>, <<2, 1, 3>>})
        short == ActionLists(0..2, SeqsUpTo(ActionTypes, 2) \ {<<>>},
                             {<<1>>, <<1, 2>>, <<3, 1>>})
        uss == SeqsUpTo(ActionUsers, MaxUsers)
    IN {[items |-> a] : a \in long}
       \cup {[included |-> <<>>, items |-> a] : a \in short}
       \cup {[included |-> [users |-> us], items |-> a] : us \in uss, a \in short}

\* The user searches: the items GET /api/users answers with, and what is
\* searched for.  A user may lack name, username or email.
SearchUsers ==
    UNION {{[id |-> i],
            [id |-> i, name |-> <<"a">>],
            [id |-> i, email |-> <<"a">>],
            [id |-> i, name |-> <<"A", "b">>, username |-> <<"a">>, email |-> <<"a", "B">>],
            [id |-> i, name |-> <<"b">>, username |-> <<"B">>, email |-> <<"b">>],
            [id |-> i, name |-> <<"a">>, username |-> <<"a", "b">>, email |-> <<"A">>],
            [id |-> i, name |-> <<>>, username |-> <<"B", "a">>, email |-> <<"a", "b">>],
            [id |-> i, name |-> <<"b", "a">>, username |-> <<>>, email |-> <<"a">>]} : i \in 1..2}

SearchValues == {<<>>, <<"a">>, <<"A">>, <<"b">>, <<"a", "B">>, <<"c">>}

SearchInputs ==
    [search : SearchValues, users : SeqsUpTo(SearchUsers, MaxUsers)]

SearchOps ==
    {"searchUsersByName", "getUserIdByName", "searchUsersByEmail", "searchUsersByUsername"}

PureOps ==
    {"getCardMembers", "uploadAttachmentFromUrl", "getCardActivitySummary"} \cup SearchOps

PureInputs(o) ==
    CASE o = "getCardMembers" -> CardAnswers
      [] o = "uploadAttachmentFromUrl" -> FilenameInputs
      [] o = "getCardActivitySummary" -> ActionsAnswers
      [] o \in SearchOps -> SearchInputs

\* plankaRequest resolved with this JSON.
Resolved(data) == [status |-> "ok", data |-> data]

Eval(o, r) ==
    /\ pc = "idle"
    /\ op = o
    /\ result' = r
    /\ pc' = "done"
    /\ UNCHANGED <<remoteVars, net, op, arg, sent, promises, order, snapshot, uploadVars>>

EvalGetCardMembers == Eval("getCardMembers", getCardMembers(Resolved(arg)))

\* uploadAttachmentFromUrl up to tempFilePath = path.join(tempDir, filename).
EvalTempFilename ==
    Eval("uploadAttachmentFromUrl", Ok(TempFilename(impl, arg.options, arg.contentType)))

EvalGetCardActivitySummary ==
    Eval("getCardActivitySummary", getCardActivitySummary(Resolved(arg)))

EvalSearchUsersByName ==
    Eval("searchUsersByName", searchUsersByName(arg.search, Resolved(arg.users)))

EvalGetUserIdByName ==
    Eval("getUserIdByName", getUserIdByName(arg.search, Resolved(arg.users)))

EvalSearchUsersByEmail ==
    Eval("searchUsersByEmail", searchUsersByEmail(arg.search, Resolved(arg.users)))

EvalSearchUsersByUsername ==
    Eval("searchUsersByUsername", searchUsersByUsername(arg.search, Resolved(arg.users)))

InitPure ==
    /\ isRead = [n \in Notifs |-> FALSE]
    /\ members = {}
    /\ attachments = AttIds
    /\ net = {}
    /\ pc = "idle"
    /\ \E o \in PureOps : op = o /\ arg \in PureInputs(o)
    /\ sent = <<>>
    /\ promises = <<>>
    /\ order = <<>>
    /\ snapshot = <<>>
    /\ result = Pending
    /\ impl \in {1, 2}
    /\ up = <<>>
    /\ fs = <<>>

NextPure ==
    \/ EvalGetCardMembers
    \/ EvalTempFilename
    \/ EvalGetCardActivitySummary
    \/ EvalSearchUsersByName
    \/ EvalGetUserIdByName
    \/ EvalSearchUsersByEmail
    \/ EvalSearchUsersByUsername

SpecPure == InitPure /\ [][NextPure]_vars

\* ------------------------------------------------------ claims under Spec
MarkOps == {"markNotificationsAsRead", "markAllNotificationsAsRead"}

\* The PATCHes the current invocation issued that have not settled yet.
PatchesInFlight == {r \in net : r.call = 1 /\ r.method = "PATCH"}

MarkDone == pc = "done" /\ op = "markNotificationsAsRead"

\* C1: markNotificationsAsRead(ids) is all-or-fail.  When it has completed,
\* it returned a list exactly when every PATCH of ids was fulfilled, the list
\* then has one entry per id; as soon as one PATCH (or the validation of its
\* response) failed it threw, and what it threw carries no list, also when
\* other PATCHes had succeeded.
C1_AllOrFail ==
    MarkDone =>
        /\ result.kind \in {"ok", "error"}
        /\ (\E i \in DOMAIN promises : promises[i].kind = "error")
              => (result.kind = "error" /\ result.value = <<>>)
        /\ result.kind = "ok"
              => (/\ \A i \in DOMAIN promises : promises[i].kind = "ok"
                  /\ DOMAIN promises = DOMAIN arg
                  /\ Len(result.value) = Len(arg))
        /\ result.kind = "error"
              => (/\ \E i \in DOMAIN promises : promises[i].kind = "error"
                  /\ Head(result.msg) = "Failed to mark notifications as read")

\* C1 witness: the call failed although the PATCH of another id had succeeded.
C1_Witness ==
    /\ MarkDone
    /\ result.kind = "error"
    /\ \E i \in DOMAIN promises : promises[i].kind = "ok"

\* C2 as claimed: whenever markNotificationsAsRead has completed, with a
\* result or with an error, none of the PATCHes it issued is still in flight.
C2_AllSettledAtCompletion ==
    (pc = "done" /\ op \in MarkOps) => PatchesInFlight = {}

\* C2 as amended: when markNotificationsAsRead completes with a result, no
\* PATCH it issued is still in flight; it completes with an error at the first
\* PATCH that fails, and the PATCHes still in flight are PATCHes of ids whose
\* promise had not settled.
C2_SettledOnSuccess ==
    (pc = "done" /\ op \in MarkOps /\ sent # <<>>) =>
        /\ result.kind = "ok" => PatchesInFlight = {}
        /\ (result.kind = "error" /\ promises # <<>>) =>
              /\ Cardinality({i \in DOMAIN promises : promises[i].kind = "error"}) = 1
              /\ \A r \in PatchesInFlight :
                    promises[r.idx - (Len(sent) - Len(promises))].kind = "pending"

\* C2 witness: a call with two ids has returned its list.
C2_Witness ==
    /\ MarkDone
    /\ result.kind = "ok"
    /\ Len(arg) >= 2
    /\ PatchesInFlight = {}

\* C3: when markNotificationsAsRead(ids) returns a list, the list is as long as
\* ids and its i-th element is what the PATCH for ids[i] answered, in whatever
\* order the PATCHes settled.
C3_ResultInInputOrder ==
    (MarkDone /\ result.kind = "ok") =>
        /\ Len(result.value) = Len(arg)
        /\ \A i \in DOMAIN arg :
              /\ result.value[i] = promises[i].value
              /\ result.value[i].id = arg[i]

\* C3 witness: the PATCHes settled in another order than the ids were given,
\* for ids that are themselves not in ascending order.
C3_Witness ==
    /\ MarkDone
    /\ result.kind = "ok"
    /\ Len(arg) >= 2
    /\ arg[1] > arg[2]
    /\ order # [i \in DOMAIN arg |-> i]

\* C8: a notification's isRead flag changes only from false to true, and only
\* when the server carries out a PATCH of that notification; every PATCH is
\* issued by markNotificationsAsRead or markAllNotificationsAsRead and carries
\* isRead true.
C8_OnlyMarkSends ==
    /\ \A i \in DOMAIN sent :
          (sent[i].method = "PATCH" \/ "isRead" \in DOMAIN sent[i].body)
              => (/\ op \in MarkOps
                  /\ sent[i].res = "notification"
                  /\ sent[i].body = [isRead |-> TRUE])
    /\ \A r \in net :
          (r.method = "PATCH" \/ "isRead" \in DOMAIN r.body)
              => (r.res = "notification" /\ r.body = [isRead |-> TRUE])

C8_FlagStep ==
    \A n \in Notifs :
        isRead'[n] # isRead[n] =>
            /\ isRead[n] = FALSE
            /\ isRead'[n] = TRUE
            /\ \E r \in net :
                  /\ r \notin net'
                  /\ r.method = "PATCH"
                  /\ r.res = "notification"
                  /\ r.id = n

C8_IsReadOnlyFalseToTrue == [][C8_OnlyMarkSends /\ C8_OnlyMarkSends' /\ C8_FlagStep]_vars

\* C8 witness: markAllNotificationsAsRead has turned a notification that its
\* snapshot showed unread into a read one.
C8_Witness ==
    /\ pc = "done"
    /\ op = "markAllNotificationsAsRead"
    /\ result.kind = "ok"
    /\ \E i \in DOMAIN snapshot :
          ~snapshot[i].isRead /\ isRead[snapshot[i].id]

NoneUnread ==
    /\ pc = "done"
    /\ op = "markAllNotificationsAsRead"
    /\ snapshot # <<>>
    /\ Unread(snapshot) = <<>>

\* C9 as claimed: markAllNotificationsAsRead, when no notification is unread,
\* returns an empty result and has issued no network call at all.
C9_NoNetworkCall ==
    NoneUnread => (result = Ok(<<>>) /\ sent = <<>>)

\* C9 as amended: markAllNotificationsAsRead, when no notification is unread,
\* returns an empty result and has issued no PATCH; its only network call is
\* the one GET of getNotifications.
C9_NoPatch ==
    NoneUnread =>
        /\ result = Ok(<<>>)
        /\ sent = <<Request("GET", "notifications", 0, NoBody)>>
        /\ PatchesInFlight = {}

\* C9 witness: markAll has returned [] on a snapshot with nothing unread.
C9_Witness == NoneUnread /\ result = Ok(<<>>)

\* The purpose prefix every operation would throw with.
Purpose(o) ==
    CASE o = "getNotifications" -> "Failed to get notifications"
      [] o = "getNotification" -> "Failed to get notification"
      [] o = "markNotificationsAsRead" -> "Failed to mark notifications as read"
      [] o = "getUnreadNotificationsCount" -> "Failed to get unread notifications count"
      [] o = "markAllNotificationsAsRead" -> "Failed to mark all notifications as read"
      [] o = "getUsers" -> "Failed to get users"
      [] o = "searchUsersByName" -> "Failed to search users by name"
      [] o = "getUserIdByName" -> "Failed to get user id by name"
      [] o = "deleteAttachment" -> "Failed to delete attachment"
      [] o = "addCardMember" -> "Failed to add member to card"
      [] o = "removeCardMember" -> "Failed to remove member from card"
      [] o = "getAttachments" -> "Failed to get attachments"
      [] o = "getCardMembers" -> "Failed to get card members"
      [] o = "getUser" -> "Failed to get user"
      [] o = "searchUsersByEmail" -> "Failed to search users by email"
      [] o = "searchUsersByUsername" -> "Failed to search users by username"
      [] o = "getCardActions" -> "Failed to get card actions"
      [] o = "getAction" -> "Failed to get action"
      [] o = "getCardActivitySummary" -> "Failed to get card activity summary"
      [] OTHER -> "none"

\* C10: every exposed operation that fails throws one error whose message is
\* its own purpose prefix followed by the message of the error it caught; no
\* error of a collaborator reaches the caller unwrapped.
C10_EveryErrorWrapped ==
    (pc = "done" /\ result.kind = "error") =>
        /\ Len(result.msg) >= 2
        /\ Head(result.msg) = Purpose(op)

\* ------------------------------------------------ claims under SpecUpload
FromUrl(u) == u.uop = "uploadAttachmentFromUrl"

Completes(i) == up[i].upc # "done" /\ up'[i].upc = "done"

\* C4 as claimed: whenever an uploadAttachmentFromUrl invocation completes, on
\* whatever exit path, the temp file it used does not exist.
C4_TempFileGone ==
    [][\A i \in Inv :
          (Completes(i) /\ FromUrl(up'[i]) /\ up'[i].upath # NoPath)
              => fs'[up'[i].upath] = NoFile]_vars

\* C4 as amended: whenever an uploadAttachmentFromUrl invocation completes, on
\* whatever exit path, the temp file it used does not exist, unless removing
\* it failed (which is only logged): then the file is left behind.
C4_TempFileGoneUnlessUnlinkFails ==
    [][\A i \in Inv :
          (Completes(i) /\ FromUrl(up'[i]))
              => /\ up'[i].uclean # "failed"
                    => (up'[i].upath = NoPath \/ fs'[up'[i].upath] = NoFile)
                 /\ up'[i].uclean = "failed" => fs'[up'[i].upath] = fs[up'[i].upath]
                 /\ (up'[i].upath = NoPath) => up'[i].udata = NoFile]_vars

\* C4 witness: an invocation has uploaded its download and removed the file.
C4_Witness ==
    \E i \in Inv :
        /\ FromUrl(up[i])
        /\ up[i].upc = "done"
        /\ up[i].ures.kind = "ok"
        /\ up[i].uclean = "removed"
        /\ fs[up[i].upath] = NoFile

\* C5: two interleaved uploadAttachmentFromUrl invocations are independent:
\* from the write of its temp file to the moment its upload reads it, the file
\* of an invocation exists and holds that invocation's download, and what an
\* invocation uploads is what it downloaded.
C5_InvocationsIndependent ==
    \A i \in Inv :
        FromUrl(up[i]) =>
            /\ up[i].upc \in {"token", "stream"} => fs[up[i].upath] = up[i].udata
            /\ up[i].upc = "response" => up[i].uread = up[i].udata
            /\ (up[i].upc = "done" /\ up[i].ures.kind = "ok")
                  => up[i].ures.value = <<up[i].udata>>

\* C6: uploadAttachment called with a path at which no file exists fails at
\* once with "File not found", having asked neither for a token nor for an
\* upload.
C6_NotFoundBeforeNetwork ==
    [][\A i \in Inv :
          (/\ up[i].upc = "idle"
           /\ up'[i].uop = "uploadAttachment"
           /\ fs[up'[i].upath] = NoFile)
              => /\ up'[i].upc = "done"
                 /\ up'[i].ures = Err(<<"Failed to upload attachment", "File not found">>)
                 /\ up'[i].ulog = <<>>]_vars

\* C6 witness: such a call has failed with nothing in its request log.
C6_Witness ==
    \E i \in Inv :
        /\ up[i].uop = "uploadAttachment"
        /\ up[i].upc = "done"
        /\ up[i].ures.msg = <<"Failed to upload attachment", "File not found">>
        /\ up[i].ulog = <<>>
        /\ fs[up[i].upath] = NoFile

\* C7: uploadAttachmentFromUrl whose download succeeds with 0 bytes fails with
\* the empty-download error and issues no token or upload request.
C7_EmptyDownloadNeverUploads ==
    \A i \in Inv :
        (FromUrl(up[i]) /\ up[i].udata = "empty") =>
            /\ up[i].upc = "done"
            /\ up[i].ures = Err(<<"Failed to upload attachment from URL",
                                  "Downloaded file is empty">>)
            /\ up[i].ulog = <<"download">>

\* --------------------------------------------- more claims under Spec
\* What the envelope schemas let through.
ValidAttachments == {[id |-> a] : a \in AttIds}
ValidMemberships == {[cardId |-> 1, userId |-> u] : u \in UserIds}

\* C11: no operation returns remote data that has not passed schema
\* validation: whatever a completed operation returned holds no entry of a
\* response that does not match the schema, such a response makes the call
\* fail.
C11_OnlyValidatedDataReturned ==
    (pc = "done" /\ result.kind = "ok") =>
        /\ op = "getAttachments" =>
              \A i \in DOMAIN result.value : result.value[i] \in ValidAttachments
        /\ op = "getCardMembers" =>
              \A i \in DOMAIN result.value :
                  result.value[i].membership \in ValidMemberships
        /\ op \in {"getNotification", "addCardMember", "removeCardMember"} =>
              result.value # Malformed
        /\ op \in {"getUsers", "searchUsersByName", "markNotificationsAsRead"} =>
              \A i \in DOMAIN result.value : result.value[i] # Malformed

\* ---------------------------------------- more claims under SpecUpload
\* What uploadAttachmentFromUrl can fail of before cleanup.
PrimaryCauses ==
    {"Failed to download file", "fetch failed", "Downloaded file is empty",
     "Failed to upload attachment"}

\* C12: when removing the temp file fails at the end of
\* uploadAttachmentFromUrl, the call completes with the upload's result if the
\* upload succeeded and with the wrapped download or upload error if not; the
\* cleanup error is never what the call completes with.
C12_CleanupFailureOnlyLogged ==
    [][\A i \in Inv :
          (Completes(i) /\ FromUrl(up'[i]) /\ up'[i].uclean = "failed") =>
              \/ /\ up[i].upc = "response"
                 /\ up'[i].ures = Ok(<<up[i].uread>>)
              \/ /\ up'[i].ures.kind = "error"
                 /\ Len(up'[i].ures.msg) >= 2
                 /\ up'[i].ures.msg[1] = "Failed to upload attachment from URL"
                 /\ up'[i].ures.msg[2] \in PrimaryCauses]_vars

\* C12 witness: removing the temp file failed for an invocation whose upload
\* had succeeded and for one whose upload had failed; each completed with its
\* own outcome.
C12_Witness ==
    \E i, j \in Inv :
        /\ FromUrl(up[i]) /\ up[i].upc = "done" /\ up[i].uclean = "failed"
        /\ up[i].ures.kind = "ok"
        /\ FromUrl(up[j]) /\ up[j].upc = "done" /\ up[j].uclean = "failed"
        /\ up[j].ures.kind = "error"
        /\ up[j].ures.msg[2] = "Failed to upload attachment"

\* While markNotificationsAsRead(ids) runs and after it has completed: it has
\* issued one PATCH per element of ids, in order, and a notification whose
\* PATCH was fulfilled is read on the server, whatever became of the call.
C20_OnePatchPerId ==
    op = "markNotificationsAsRead" =>
        /\ Len(sent) = Len(arg)
        /\ \A i \in DOMAIN arg :
              sent[i] = [id |-> arg[i], method |-> "PATCH", res |-> "notification",
                         body |-> [isRead |-> TRUE]]
        /\ \A k \in DOMAIN promises : promises[k].kind = "ok" => isRead[arg[k]]

\* At the call every PATCH is in flight before any response is processed; the
\* call issues nothing later; and when the call fails, every PATCH that has
\* not settled stays in flight.
C20_Step ==
    /\ (pc = "idle" /\ op' = "markNotificationsAsRead") =>
          /\ \A i \in DOMAIN arg' :
                [id |-> arg'[i], method |-> "PATCH", res |-> "notification",
                 body |-> [isRead |-> TRUE], call |-> 1, idx |-> i] \in net'
          /\ Cardinality(net' \ net) = Len(arg')
    /\ (op = "markNotificationsAsRead" /\ op' = op) => sent' = sent
    /\ (op = "markNotificationsAsRead" /\ pc = "await" /\ result'.kind = "error") =>
          \A r \in PatchesInFlight : promises'[r.idx].kind = "pending" => r \in net'

\* C20: markNotificationsAsRead(ids) issues exactly one PATCH per element of
\* ids (one per occurrence of a repeated id, none for an empty list), all of
\* them before any response is processed; a failing PATCH cancels no other,
\* and when the call fails the notifications whose own PATCH succeeded are
\* read on the server all the same.
C20_AllPatchesIssuedNoRollback ==
    [][C20_OnePatchPerId /\ C20_OnePatchPerId' /\ C20_Step]_vars

\* C20 witness: the same id given twice; its first PATCH succeeded, its
\* second failed and with it the call; the notification is read.
C20_Witness ==
    /\ MarkDone
    /\ Len(arg) = 2
    /\ arg[1] = arg[2]
    /\ Len(sent) = 2
    /\ promises[1].kind = "ok"
    /\ promises[2].kind = "error"
    /\ result.kind = "error"
    /\ isRead[arg[1]]

\* ------------------------------------------------- claims under SpecPure
\* included.cardMemberships and included.users of the answer in arg, an
\* absent key or an absent included being the empty list.
ArgMemberships ==
    IF "included" \in DOMAIN arg /\ "cardMemberships" \in DOMAIN arg.included
    THEN arg.included.cardMemberships ELSE <<>>

ArgUsers ==
    IF "included" \in DOMAIN arg /\ "users" \in DOMAIN arg.included
    THEN arg.included.users ELSE <<>>

\* C13: getCardMembers returns one record per entry of
\* included.cardMemberships, in the same order; each record holds the
\* membership and the first user of included.users whose id is the membership's
\* userId, or undefined when there is none; absent keys count as empty lists
\* and never make the call fail.
C13_LeftJoin ==
    (op = "getCardMembers" /\ pc = "done") =>
        /\ result.kind = "ok"
        /\ Len(result.value) = Len(ArgMemberships)
        /\ \A i \in DOMAIN ArgMemberships :
              /\ result.value[i].membership = ArgMemberships[i]
              /\ IF \E k \in DOMAIN ArgUsers : ArgUsers[k].id = ArgMemberships[i].userId
                 THEN \E k \in DOMAIN ArgUsers :
                         /\ ArgUsers[k].id = ArgMemberships[i].userId
                         /\ \A j \in 1..(k - 1) : ArgUsers[j].id # ArgMemberships[i].userId
                         /\ result.value[i].user = ArgUsers[k]
                 ELSE result.value[i].user = Undefined

\* C13 witness: two memberships, the first without a user in included.users,
\* the second with a user that is not the first of the list.
C13_Witness ==
    /\ op = "getCardMembers"
    /\ pc = "done"
    /\ Len(result.value) = 2
    /\ result.value[1].user = Undefined
    /\ Len(ArgUsers) = 2
    /\ result.value[2].user = ArgUsers[2]
    /\ ArgUsers[1].id # ArgUsers[2].id

NamedFromUrl == op = "uploadAttachmentFromUrl" /\ pc = "done"

ArgBasename == basename(arg.options.url.path)

ArgMimeExtension ==
    IF arg.contentType # <<>> THEN mimeToExt(arg.contentType[1]) ELSE <<>>

\* C14: the temp filename is chosen by the first rule that applies: (1) the
\* filename parameter; (2) the URL path basename when it ends in a dot and 2
\* to 4 alphanumeric characters; (3) download_<now> plus the extension the MIME
\* table gives for the content-type; (4) download_<now> plus the known
\* extension the URL string ends in; (5) download_<now>.bin.
C14_FilenamePriority ==
    NamedFromUrl =>
        result.value =
            IF arg.options.filename # <<>> THEN arg.options.filename
            ELSE IF HasDottedExtension(ArgBasename) THEN ArgBasename
            ELSE IF ArgMimeExtension # <<>> THEN Generated(ArgMimeExtension)
            ELSE IF UrlExtension(impl, arg.options.url) # <<>>
            THEN Generated(UrlExtension(impl, arg.options.url))
            ELSE Generated(<<".", "b", "i", "n">>)

\* C15: without a filename parameter, a download whose content-type is
\* image/png is stored in a temp file whose name ends in .png, whatever the
\* URL.
C15_PngContentTypeGivesPng ==
    (/\ NamedFromUrl
     /\ arg.options.filename = <<>>
     /\ arg.contentType # <<>>
     /\ arg.contentType[1] = "image/png")
        => EndsWith(result.value, <<".", "p", "n", "g">>)

Summarised == op = "getCardActivitySummary" /\ pc = "done"

\* C16: for a validated list of n actions getCardActivitySummary returns
\* byType with exactly the keys createCard, moveCard and commentCard, each the
\* number of actions of that type; totalActions = n = the sum of the three;
\* allActions, the view {id, type, user, userId, data, createdAt} of every
\* action in input order; recentActions, the first min(10, n) entries of
\* allActions in input order.
C16_Summary ==
    Summarised =>
        /\ result.kind = "ok"
        /\ LET v == result.value
               n == Len(arg.items)
           IN /\ DOMAIN v.byType = {"createCard", "moveCard", "commentCard"}
              /\ \A t \in DOMAIN v.byType :
                    v.byType[t] = Cardinality({i \in 1..n : arg.items[i].type = t})
              /\ v.totalActions = n
              /\ v.totalActions =
                    v.byType.createCard + v.byType.moveCard + v.byType.commentCard
              /\ Len(v.allActions) = n
              /\ \A i \in 1..n :
                    /\ DOMAIN v.allActions[i] =
                          {"id", "type", "user", "userId", "data", "createdAt"}
                    /\ v.allActions[i].id = arg.items[i].id
                    /\ v.allActions[i].type = arg.items[i].type
                    /\ v.allActions[i].userId = arg.items[i].userId
                    /\ v.allActions[i].data = arg.items[i].data
                    /\ v.allActions[i].createdAt = arg.items[i].createdAt
              /\ Len(v.recentActions) = (IF n < 10 THEN n ELSE 10)
              /\ \A i \in DOMAIN v.recentActions : v.recentActions[i] = v.allActions[i]

\* C16 witness: a summary of 11 actions of all three types: recentActions
\* holds the first 10.
C16_Witness ==
    /\ Summarised
    /\ result.value.totalActions = 11
    /\ Len(result.value.recentActions) = 10
    /\ result.value.byType.createCard > 0
    /\ result.value.byType.moveCard > 0
    /\ result.value.byType.commentCard > 0

\* The answer's included.users.
ArgActionUsers ==
    IF "included" \in DOMAIN arg /\ "users" \in DOMAIN arg.included
    THEN arg.included.users ELSE <<>>

\* name, then username, then email, whichever is there first; none: no name.
Available(user, key) == key \in DOMAIN user /\ user[key] # ""

DisplayName(user) ==
    IF Available(user, "name") THEN Str(user.name)
    ELSE IF Available(user, "username") THEN Str(user.username)
    ELSE IF Available(user, "email") THEN Str(user.email)
    ELSE Str("Unknown user")

\* C17: the user field of every flattened action is the display name of the
\* included user whose id is the action's userId: name, else username, else
\* email, else 'Unknown user'; and 'Unknown user' when no such user is
\* included.
C17_DisplayNameFallback ==
    Summarised =>
        \A i \in DOMAIN result.value.allActions :
            LET same == {k \in DOMAIN ArgActionUsers :
                            ArgActionUsers[k].id = arg.items[i].userId}
            IN IF same = {} THEN result.value.allActions[i].user = Str("Unknown user")
               ELSE \E k \in same :
                       result.value.allActions[i].user = DisplayName(ArgActionUsers[k])

\* out is the list of the users of arg.users at the indices idx, in the
\* order of arg.users.
KeepsExactly(out, idx) ==
    /\ Len(out) = Cardinality(idx)
    /\ \A j \in DOMAIN out :
          out[j] = arg.users[CHOOSE i \in idx : Cardinality({k \in idx : k <= i}) = j]

\* The user has the field and its value, lower-cased, is the search value,
\* lower-cased; for an empty search value: the user has no such value.
MatchesExactly(user, key) ==
    IF arg.search = <<>> THEN key \notin DOMAIN user \/ user[key] = <<>>
    ELSE /\ key \in DOMAIN user
         /\ Len(user[key]) = Len(arg.search)
         /\ \A k \in DOMAIN user[key] : ToLowerChar(user[key][k]) = ToLowerChar(arg.search[k])

\* C18: searchUsersByEmail(e) returns exactly the users whose email is e up
\* to case, in the order of getUsers(), and searchUsersByUsername(u) likewise
\* on username; an email that only contains e does not match, and a user
\* without the field matches no non-empty search value.
C18_ExactMatch ==
    /\ (op = "searchUsersByEmail" /\ pc = "done") =>
          /\ result.kind = "ok"
          /\ KeepsExactly(result.value,
                          {i \in DOMAIN arg.users : MatchesExactly(arg.users[i], "email")})
    /\ (op = "searchUsersByUsername" /\ pc = "done") =>
          /\ result.kind = "ok"
          /\ KeepsExactly(result.value,
                          {i \in DOMAIN arg.users : MatchesExactly(arg.users[i], "username")})

\* C18 witness: a search by email "A" over a user whose email is "a" and a
\* user whose email is "ab": only the first is returned.
C18_Witness ==
    /\ op = "searchUsersByEmail"
    /\ pc = "done"
    /\ arg.search = <<"A">>
    /\ Len(arg.users) = 2
    /\ "email" \in DOMAIN arg.users[1] /\ arg.users[1].email = <<"a", "b">>
    /\ "email" \in DOMAIN arg.users[2] /\ arg.users[2].email = <<"a">>
    /\ result.value = <<arg.users[2]>>

\* The user's name, lower-cased, contains the search value, lower-cased; a
\* user without a name has the empty name.
NameContains(user) ==
    LET name == IF "name" \in DOMAIN user THEN user.name ELSE <<>>
    IN \E start \in 1..(Len(name) + 1) :
          \A k \in DOMAIN arg.search :
              /\ start + k - 1 <= Len(name)
              /\ ToLowerChar(name[start + k - 1]) = ToLowerChar(arg.search[k])

NameMatches == {i \in DOMAIN arg.users : NameContains(arg.users[i])}

\* C19: searchUsersByName(s) returns, in the order of getUsers(), exactly the
\* users whose lower-cased name contains lower-cased s; getUserIdByName(s)
\* returns the id of the first of them, or null when there is none.
C19_SubstringMatchFirstId ==
    /\ (op = "searchUsersByName" /\ pc = "done") =>
          /\ result.kind = "ok"
          /\ KeepsExactly(result.value, NameMatches)
    /\ (op = "getUserIdByName" /\ pc = "done") =>
          /\ result.kind = "ok"
          /\ NameMatches = {} => result.value = "null"
          /\ NameMatches # {} =>
                result.value = arg.users[CHOOSE i \in NameMatches :
                                            \A j \in NameMatches : i <= j].id

\* C19 witness: getUserIdByName("a") where the first user's name does not
\* contain it and the second's, "Ab", does.
C19_Witness ==
    /\ op = "getUserIdByName"
    /\ pc = "done"
    /\ arg.search = <<"a">>
    /\ Len(arg.users) = 2
    /\ NameMatches = {2}
    /\ arg.users[2].name = <<"A", "b">>
    /\ arg.users[1].id # arg.users[2].id
    /\ result.value = arg.users[2].id

\* --------------------------------------- claims on the derived conveniences
\* The positions of the snapshot's unread notifications.
SnapshotUnread == {i \in DOMAIN snapshot : ~snapshot[i].isRead}

\* What the current invocation sent after its first request.
SentAfterFirst == SubSeq(sent, 2, Len(sent))

\* markAllNotificationsAsRead sent one GET of the notifications, and after it
\* one PATCH per unread notification of the snapshot, in the snapshot's order.
C21_PatchesOfSnapshot ==
    op = "markAllNotificationsAsRead" =>
        /\ Len(sent) >= 1
        /\ sent[1] = Request("GET", "notifications", 0, NoBody)
        /\ \A k \in 2..Len(sent) : sent[k].method = "PATCH" /\ sent[k].res = "notification"
        /\ Len(SentAfterFirst) > 0 => snapshot # <<>>
        /\ (pc = "done" /\ result.kind = "ok") =>
              /\ snapshot # <<>>
              /\ Len(result.value) = Cardinality(SnapshotUnread)
        /\ (snapshot # <<>> /\ pc # "idle") =>
              \E f \in [1..Len(SentAfterFirst) -> DOMAIN snapshot] :
                  /\ {f[k] : k \in 1..Len(SentAfterFirst)} = SnapshotUnread
                  /\ \A j, k \in 1..Len(SentAfterFirst) : j < k => f[j] < f[k]
                  /\ \A k \in 1..Len(SentAfterFirst) :
                        SentAfterFirst[k].id = snapshot[f[k]].id

\* getUnreadNotificationsCount returns the number of notifications of its
\* listing whose isRead is false.
C21_CountOfListing ==
    (op = "getUnreadNotificationsCount" /\ pc = "done" /\ result.kind = "ok") =>
        /\ snapshot # <<>>
        /\ result.value = Cardinality(SnapshotUnread)

MarkAllSucceeded ==
    op = "markAllNotificationsAsRead" /\ pc = "done" /\ result.kind = "ok"

CountReturned ==
    op = "getUnreadNotificationsCount" /\ pc = "done" /\ result.kind = "ok"

\* Every notification is read on the server.
AllRead == \A n \in Notifs : isRead[n]

\* The step in which getUnreadNotificationsCount returns.
CountReturns == ~CountReturned /\ CountReturned'

\* Once markAll has succeeded every notification is read; read notifications
\* stay read (no other client acts on them); and a count that returns while
\* every notification is read returns 0.
C21_CountAfterMarkAll ==
    /\ MarkAllSucceeded => AllRead
    /\ AllRead => AllRead'
    /\ (AllRead /\ CountReturns) => result'.value = 0
    /\ CountReturns =>
          result'.value = Cardinality({n \in Notifs : ~isRead'[n]})

\* C21: markAllNotificationsAsRead takes one getNotifications snapshot and
\* issues a PATCH for exactly the ids unread in it, in its order, and for no
\* read one; once it has succeeded, with no other client acting on the
\* notifications, a getUnreadNotificationsCount that returns afterwards
\* returns 0; and getUnreadNotificationsCount always returns the number of
\* notifications of its listing with isRead false.
C21_MarkAllThenCountZero ==
    [][/\ C21_PatchesOfSnapshot /\ C21_PatchesOfSnapshot'
       /\ C21_CountOfListing /\ C21_CountOfListing'
       /\ C21_CountAfterMarkAll]_vars

\* C21 witness: markAll has succeeded with two PATCHes, on a snapshot whose
\* notifications were both unread, and both are read on the server now.
C21_Witness ==
    /\ MarkAllSucceeded
    /\ Len(SentAfterFirst) >= 2
    /\ Len(result.value) = Len(SentAfterFirst)
    /\ \A n \in Notifs : isRead[n]

\* ------------------------------------------- claims on the read operations
ReadOps ==
    {"getUsers", "getUser", "searchUsersByName", "searchUsersByEmail",
     "searchUsersByUsername", "getUserIdByName", "getNotifications", "getNotification",
     "getUnreadNotificationsCount", "getCardActions", "getAction",
     "getCardActivitySummary", "getCardMembers", "getAttachments"}

\* The requests of the current invocation that are in flight.
OwnInFlight == {r \in net : r.call = 1}

\* A read operation that was invoked has issued one request, a GET without a
\* body; that request is in flight while the operation waits for it, and
\* nothing of the operation is in flight once it has completed.
C22_OneGet ==
    (op \in ReadOps /\ pc # "idle") =>
        /\ Len(sent) = 1
        /\ sent[1].method = "GET"
        /\ sent[1].body = NoBody
        /\ pc = "await" => OwnInFlight = {InFlight(1, 1, sent[1])}
        /\ pc = "done" => (OwnInFlight = {} /\ result.kind \in {"ok", "error"})

\* Invoking a read operation, waiting for it and its completion, with a
\* result or with an error, change nothing on the server and issue nothing
\* more; whatever changes on the server is the effect of a request that is
\* no GET, which no read operation has issued.
C22_Frame ==
    /\ (pc = "idle" /\ op' \in ReadOps) => remoteVars' = remoteVars
    /\ (op \in ReadOps /\ pc = "await") =>
          /\ sent' = sent
          /\ OwnInFlight' \subseteq OwnInFlight
          /\ pc' = "done" =>
                (remoteVars' = remoteVars /\ result'.kind \in {"ok", "error"})
    /\ remoteVars' # remoteVars =>
          \E r \in net :
              /\ r \notin net'
              /\ r.method # "GET"
              /\ ~(r.call = 1 /\ op \in ReadOps)

\* C22: the read operations issue only GET requests, exactly one per
\* invocation and none again after a failure, and leave memberships,
\* attachments and isRead flags as they are, whether they succeed or fail.
C22_ReadsOnlyGetAndChangeNothing ==
    [][C22_OneGet /\ C22_OneGet' /\ C22_Frame]_vars

\* C22 witness: getCardActivitySummary has failed after its one GET, while a
\* notification is unread and the attachment exists.
C22_Witness ==
    /\ op = "getCardActivitySummary"
    /\ pc = "done"
    /\ result.kind = "error"
    /\ sent = <<Request("GET", "actions", 1, NoBody)>>
    /\ \E n \in Notifs : ~isRead[n]
    /\ attachments = AttIds

====
